---- MODULE Spec2Model ----
(***************************************************************************)
(* Model of the voice pipeline of discord_tars                             *)
(* (src/internal/services/voice/voice.go).                                 *)
(*                                                                         *)
(* Part 1: the connection registry, Service.voiceConns guarded by          *)
(*         Service.voiceMu, with JoinVoiceChannel and DisconnectVoice      *)
(*         translated statement by statement.                              *)
(* Part 2: the playback driver, Service.SpeakText.                         *)
(* Part 3: the capture driver, Service.ListenToVoice, with the container   *)
(*         written by writeWAVHeader.                                      *)
(* Part 4: the read loop of SpeakText that turns the bytes of the MP3      *)
(*         decoder into samples.                                           *)
(*                                                                         *)
(* The discordgo session and voice connection are external: the open call  *)
(* session.ChannelVoiceJoin is a factory that either fails or returns a    *)
(* new connected handle, vc.Close() closes a handle and clears its Ready   *)
(* flag, and the library itself may clear Ready on an open handle when     *)
(* the connection drops.                                                   *)
(***************************************************************************)
EXTENDS Integers, Sequences, FiniteSets, TLC

\* ------------------------------------------------------------- bounds
\* samples per channel per frame; the program has 480 (voice.go:22), scaled
\* down here so that sample sequences can be enumerated
frameSize == 2
\* longest decoded sample sequence
MaxPcmLen == 9
\* capacity of the buffered channel vc.OpusSend
OpusSendCap == 2
\* callers that use the registry concurrently, each any number of times
NumCallers == 2
\* callers of the concurrent same-channel join scenario, one call each
NumJoiners == 3
\* handles the open call can hand out in one run
MaxHandles == 3
\* frames other goroutines put into vc.OpusSend during one ListenToVoice call
MaxArrivals == 3
\* longest byte stream the MP3 decoder delivers
MaxStreamLen == 4

Callers == 1 .. NumCallers
Joiners == 1 .. NumJoiners
Procs == Callers \cup Joiners
Handles == 1 .. MaxHandles
Guilds == {"g1", "g2"}
Channels == {"c1", "c2"}

\* no map entry for the guild / no handle
NoConn == 0

\* voice.go:20
channels == 2
\* samples in one frame, frameSize * channels (lines 134, 135, 141)
FrameLen == frameSize * channels
\* sample values of the decoded audio
SampleVals == {0, 7}
PcmSeqs == UNION {[1 .. n -> SampleVals] : n \in 0 .. MaxPcmLen}

\* voice.go:21
frameRate == 24000
\* voice.go:23, the length of byteBuffer (line 97)
maxBytes == frameSize * 2 * channels

\* a nil frame, and a non-nil frame sent by another goroutine
NilFrame == 0
ForeignFrame == 0 - 1
\* sample values the Opus decoder produces
ListenSampleVals == {0 - 2, 258}
\* what decoder.Decode leaves in pcm[:n]: nothing, one sample, a full frame
DecodedSeqs ==
    {<<>>} \cup {<<v>> : v \in ListenSampleVals}
    \cup {[j \in 1 .. FrameLen |-> IF j = 1 THEN v ELSE w] :
             v \in ListenSampleVals, w \in ListenSampleVals}
\* byte values of the decoded MP3 stream
ByteVals == {1, 130}
ByteStreams == UNION {[1 .. n -> ByteVals] : n \in 0 .. MaxStreamLen}
\* the chunk identifiers "RIFF", "WAVE", "fmt " and "data" as bytes
TagRIFF == <<82, 73, 70, 70>>
TagWAVE == <<87, 65, 86, 69>>
TagFmt == <<102, 109, 116, 32>>
TagData == <<100, 97, 116, 97>>

VARIABLES
    voiceConns,   \* Service.voiceConns: guild -> handle, NoConn when absent
    voiceMu,      \* Service.voiceMu: 0 when free, else the caller holding it
    hState,       \* handle -> "unopened" | "open" | "closed"
    hGuild,       \* VoiceConnection.GuildID
    hChannel,     \* VoiceConnection.ChannelID
    hReady,       \* VoiceConnection.Ready
    pc,           \* caller -> position in JoinVoiceChannel / DisconnectVoice
    argG,         \* caller -> guildID argument
    argC,         \* caller -> channelID argument
    vcLocal,      \* caller -> local variable vc
    entrySnap,    \* caller -> voiceConns as it was when the caller locked
    callOpens,    \* caller -> ChannelVoiceJoin calls made by the current call
    callCloses,   \* caller -> vc.Close() calls made by the current call
    out,          \* what the call that returned in the last step handed back
    got,          \* join scenario: caller -> the result it received
    speaking,     \* handle -> the transport's speaking flag (vc.Speaking)
    opusSend,     \* handle -> frames queued in the channel vc.OpusSend
    spc,          \* position of the SpeakText call
    svc,          \* SpeakText: the argument vc
    ctxDone,      \* SpeakText: ctx.Done() is closed
    pcm,          \* SpeakText: the decoded samples
    idx,          \* SpeakText: the loop variable i of the chunk loop
    opusData,     \* SpeakText: the frame being offered
    sret,         \* SpeakText: the value returned
    encoded,      \* the sample blocks handed to enc.Encode, in call order
    accepted,     \* the frames vc.OpusSend accepted from the call, in order
    cancelAt,     \* frames accepted when ctx was cancelled while streaming
    synthCalls,   \* s.client.CreateSpeech calls made by the SpeakText call
    lpc,          \* position of the ListenToVoice call
    lvc,          \* ListenToVoice: the argument vc
    lctxDone,     \* ListenToVoice: ctx.Done() is closed
    timerFired,   \* ListenToVoice: the channel of time.After has fired
    pcmBuffer,    \* ListenToVoice: the local pcmBuffer
    wavBuffer,    \* ListenToVoice: the bytes of wavBuffer
    lret,         \* ListenToVoice: the error returned, "ok" for a text
    transcribeCalls, \* s.client.CreateTranscription calls made by the call
    heard,        \* what the call did with each frame it received, in order
    arrived,      \* frames other goroutines have put into vc.OpusSend
    lcancelPc,    \* position of the ListenToVoice call when ctx was cancelled
    mp3Bytes,     \* read loop: the PCM bytes the MP3 decoder will deliver
    readPos,      \* read loop: bytes delivered so far
    readSizes,    \* read loop: the n of every decoder.Read so far
    dpcm,         \* read loop: the local pcm
    dpc           \* read loop: "read" | "eof" | "failed"

regVars == <<voiceConns, voiceMu, hState, hGuild, hChannel, hReady, pc, argG,
             argC, vcLocal, entrySnap, callOpens, callCloses, out>>

speakVars == <<speaking, opusSend, spc, svc, ctxDone, pcm, idx, opusData, sret,
               encoded, accepted>>

\* the SpeakText variables other than the channel
speakLocal == <<speaking, spc, svc, ctxDone, pcm, idx, opusData, sret,
                encoded, accepted>>

listenVars == <<lpc, lvc, lctxDone, timerFired, pcmBuffer, wavBuffer, lret,
                transcribeCalls, heard, arrived, lcancelPc>>

decVars == <<mp3Bytes, readPos, readSizes, dpcm, dpc>>

vars == <<regVars, got, speakVars, cancelAt, synthCalls, listenVars, decVars>>

\* out when the last step was not a return
NoOut == [p |-> 0, op |-> "none", g |-> "g1", h |-> NoConn, err |-> FALSE,
          opens |-> 0, closes |-> 0]

EmptyMap == [g \in Guilds |-> NoConn]

\* ------------------------------------------------------------ helpers

\* handles of guild g that have been opened and not closed
Live(g) == {h \in Handles : hState[h] = "open" /\ hGuild[h] = g}

\* the handle the next successful ChannelVoiceJoin returns
Unopened == {h \in Handles : hState[h] = "unopened"}
FreshHandle == CHOOSE h \in Unopened : \A k \in Unopened : h <= k

\* s.voiceMu.Lock() can proceed (lines 49, 282)
CanLockBroken == TRUE
CanLock == voiceMu = 0

\* vc.ChannelID == channelID (line 53)
SameChannelBroken(vc, c) == FALSE
SameChannel(vc, c) == hChannel[vc] = c

\* exists && vc != nil && vc.Ready (line 52)
ReadyEntry(g) == voiceConns[g] # NoConn /\ hReady[voiceConns[g]]

\* positions at which a caller holds voiceMu
CriticalPCs == {"jCheck", "jClose", "jOpen", "jStore", "dCheck", "dClose", "dDelete"}

RegInit ==
    /\ voiceConns = EmptyMap
    /\ voiceMu = 0
    /\ hState = [h \in Handles |-> "unopened"]
    /\ hGuild = [h \in Handles |-> "g1"]
    /\ hChannel = [h \in Handles |-> "c1"]
    /\ hReady = [h \in Handles |-> FALSE]
    /\ pc = [p \in Procs |-> "idle"]
    /\ argG = [p \in Procs |-> "g1"]
    /\ argC = [p \in Procs |-> "c1"]
    /\ vcLocal = [p \in Procs |-> NoConn]
    /\ entrySnap = [p \in Procs |-> EmptyMap]
    /\ callOpens = [p \in Procs |-> 0]
    /\ callCloses = [p \in Procs |-> 0]
    /\ out = NoOut

\* return (h, err) from operation op: the deferred Unlock releases voiceMu
\* (lines 50, 283), the frame of the call (arguments, locals, per-call counts)
\* is gone, and out tells what the call handed back and what it did
Return(p, op, h, err, opens) ==
    /\ voiceMu' = 0
    /\ pc' = [pc EXCEPT ![p] = "idle"]
    /\ argG' = [argG EXCEPT ![p] = "g1"]
    /\ argC' = [argC EXCEPT ![p] = "c1"]
    /\ vcLocal' = [vcLocal EXCEPT ![p] = NoConn]
    /\ entrySnap' = [entrySnap EXCEPT ![p] = EmptyMap]
    /\ callOpens' = [callOpens EXCEPT ![p] = 0]
    /\ callCloses' = [callCloses EXCEPT ![p] = 0]
    /\ out' = [p |-> p, op |-> op, g |-> argG[p], h |-> h, err |-> err,
               opens |-> opens, closes |-> callCloses[p]]

\* --------------------------------------------------- JoinVoiceChannel

\* lines 48-50: a caller enters JoinVoiceChannel(guildID = g, channelID = c)
\* and takes voiceMu; it blocks while another caller holds it
JoinEnter(p, g, c) ==
    /\ pc[p] = "idle"
    /\ CanLock
    /\ voiceMu' = p
    /\ pc' = [pc EXCEPT ![p] = "jCheck"]
    /\ argG' = [argG EXCEPT ![p] = g]
    /\ argC' = [argC EXCEPT ![p] = c]
    /\ entrySnap' = [entrySnap EXCEPT ![p] = voiceConns]
    /\ out' = NoOut
    /\ UNCHANGED <<voiceConns, hState, hGuild, hChannel, hReady, vcLocal,
                   callOpens, callCloses>>
    /\ UNCHANGED speakVars

\* lines 52-55: the lookup; a ready entry on the requested channel is returned
JoinCheck(p) ==
    /\ pc[p] = "jCheck"
    /\ IF ReadyEntry(argG[p])
         THEN IF SameChannel(voiceConns[argG[p]], argC[p])
                THEN Return(p, "join", voiceConns[argG[p]], FALSE, callOpens[p])
                ELSE /\ vcLocal' = [vcLocal EXCEPT ![p] = voiceConns[argG[p]]]
                     /\ pc' = [pc EXCEPT ![p] = "jClose"]
                     /\ out' = NoOut
                     /\ UNCHANGED <<voiceMu, argG, argC, entrySnap,
                                    callOpens, callCloses>>
         ELSE /\ pc' = [pc EXCEPT ![p] = "jOpen"]
              /\ out' = NoOut
              /\ UNCHANGED <<vcLocal, voiceMu, argG, argC, entrySnap,
                             callOpens, callCloses>>
    /\ UNCHANGED <<voiceConns, hState, hGuild, hChannel, hReady>>
    /\ UNCHANGED speakVars

\* line 56: vc.Close() on the ready handle of the other channel
JoinCloseAndDelete(p) ==
    /\ pc[p] = "jClose"
    /\ hState' = [hState EXCEPT ![vcLocal[p]] = "closed"]
    /\ hReady' = [hReady EXCEPT ![vcLocal[p]] = FALSE]
    /\ voiceConns' = [voiceConns EXCEPT ![argG[p]] = NoConn]
    /\ callCloses' = [callCloses EXCEPT ![p] = @ + 1]
    /\ pc' = [pc EXCEPT ![p] = "jOpen"]
    /\ out' = NoOut
    /\ UNCHANGED <<voiceMu, hGuild, hChannel, argG, argC, vcLocal,
                   entrySnap, callOpens>>
    /\ UNCHANGED speakVars

JoinClose(p) ==
    /\ pc[p] = "jClose"
    /\ hState' = [hState EXCEPT ![vcLocal[p]] = "closed"]
    /\ hReady' = [hReady EXCEPT ![vcLocal[p]] = FALSE]
    /\ callCloses' = [callCloses EXCEPT ![p] = @ + 1]
    /\ pc' = [pc EXCEPT ![p] = "jOpen"]
    /\ out' = NoOut
    /\ UNCHANGED <<voiceConns, voiceMu, hGuild, hChannel, argG, argC, vcLocal,
                   entrySnap, callOpens>>
    /\ UNCHANGED speakVars

\* lines 59-62: vc, err := session.ChannelVoiceJoin(guildID, channelID, ...);
\* on error the call returns (nil, err)
JoinOpenRetry(p) ==
    /\ pc[p] = "jOpen"
    /\ \/ /\ Unopened # {}
          /\ hState' = [hState EXCEPT ![FreshHandle] = "open"]
          /\ hGuild' = [hGuild EXCEPT ![FreshHandle] = argG[p]]
          /\ hChannel' = [hChannel EXCEPT ![FreshHandle] = argC[p]]
          /\ hReady' = [hReady EXCEPT ![FreshHandle] = TRUE]
          /\ vcLocal' = [vcLocal EXCEPT ![p] = FreshHandle]
          /\ callOpens' = [callOpens EXCEPT ![p] = @ + 1]
          /\ pc' = [pc EXCEPT ![p] = "jStore"]
          /\ out' = NoOut
          /\ UNCHANGED <<voiceMu, argG, argC, entrySnap, callCloses>>
       \/ /\ callOpens' = [callOpens EXCEPT ![p] = @ + 1]
          /\ out' = NoOut
          /\ UNCHANGED <<voiceMu, pc, argG, argC, vcLocal, entrySnap, callCloses,
                         hState, hGuild, hChannel, hReady>>
    /\ UNCHANGED voiceConns
    /\ UNCHANGED speakVars

JoinOpen(p) ==
    /\ pc[p] = "jOpen"
    /\ \/ /\ Unopened # {}
          /\ hState' = [hState EXCEPT ![FreshHandle] = "open"]
          /\ hGuild' = [hGuild EXCEPT ![FreshHandle] = argG[p]]
          /\ hChannel' = [hChannel EXCEPT ![FreshHandle] = argC[p]]
          /\ hReady' = [hReady EXCEPT ![FreshHandle] = TRUE]
          /\ vcLocal' = [vcLocal EXCEPT ![p] = FreshHandle]
          /\ callOpens' = [callOpens EXCEPT ![p] = @ + 1]
          /\ pc' = [pc EXCEPT ![p] = "jStore"]
          /\ out' = NoOut
          /\ UNCHANGED <<voiceMu, argG, argC, entrySnap, callCloses>>
       \/ /\ Return(p, "join", NoConn, TRUE, callOpens[p] + 1)
          /\ UNCHANGED <<hState, hGuild, hChannel, hReady>>
    /\ UNCHANGED voiceConns
    /\ UNCHANGED speakVars

\* lines 64-66: s.voiceConns[guildID] = vc; return vc, nil
JoinStoreNoStore(p) ==
    /\ pc[p] = "jStore"
    /\ Return(p, "join", vcLocal[p], FALSE, callOpens[p])
    /\ UNCHANGED <<voiceConns, hState, hGuild, hChannel, hReady>>
    /\ UNCHANGED speakVars

JoinStore(p) ==
    /\ pc[p] = "jStore"
    /\ voiceConns' = [voiceConns EXCEPT ![argG[p]] = vcLocal[p]]
    /\ Return(p, "join", vcLocal[p], FALSE, callOpens[p])
    /\ UNCHANGED <<hState, hGuild, hChannel, hReady>>
    /\ UNCHANGED speakVars

\* ---------------------------------------------------- DisconnectVoice

\* lines 281-283: a caller enters DisconnectVoice(guildID = g) and takes voiceMu
DisconnectEnter(p, g) ==
    /\ pc[p] = "idle"
    /\ CanLock
    /\ voiceMu' = p
    /\ pc' = [pc EXCEPT ![p] = "dCheck"]
    /\ argG' = [argG EXCEPT ![p] = g]
    /\ entrySnap' = [entrySnap EXCEPT ![p] = voiceConns]
    /\ out' = NoOut
    /\ UNCHANGED <<voiceConns, hState, hGuild, hChannel, hReady, argC, vcLocal,
                   callOpens, callCloses>>
    /\ UNCHANGED speakVars

\* line 285: if vc, exists := s.voiceConns[guildID]; exists && vc != nil
DisconnectCheck(p) ==
    /\ pc[p] = "dCheck"
    /\ IF voiceConns[argG[p]] # NoConn
         THEN /\ vcLocal' = [vcLocal EXCEPT ![p] = voiceConns[argG[p]]]
              /\ pc' = [pc EXCEPT ![p] = "dClose"]
              /\ out' = NoOut
              /\ UNCHANGED <<voiceMu, argG, argC, entrySnap, callOpens, callCloses>>
         ELSE Return(p, "disconnect", NoConn, FALSE, callOpens[p])
    /\ UNCHANGED <<voiceConns, hState, hGuild, hChannel, hReady>>
    /\ UNCHANGED speakVars

\* line 286: vc.Close()
DisconnectClose(p) ==
    /\ pc[p] = "dClose"
    /\ hState' = [hState EXCEPT ![vcLocal[p]] = "closed"]
    /\ hReady' = [hReady EXCEPT ![vcLocal[p]] = FALSE]
    /\ callCloses' = [callCloses EXCEPT ![p] = @ + 1]
    /\ pc' = [pc EXCEPT ![p] = "dDelete"]
    /\ out' = NoOut
    /\ UNCHANGED <<voiceConns, voiceMu, hGuild, hChannel, argG, argC, vcLocal,
                   entrySnap, callOpens>>
    /\ UNCHANGED speakVars

\* lines 287-289: delete(s.voiceConns, guildID); return
DisconnectDeleteKeep(p) ==
    /\ pc[p] = "dDelete"
    /\ Return(p, "disconnect", NoConn, FALSE, callOpens[p])
    /\ UNCHANGED <<voiceConns, hState, hGuild, hChannel, hReady>>
    /\ UNCHANGED speakVars

DisconnectDeleteAll(p) ==
    /\ pc[p] = "dDelete"
    /\ voiceConns' = [g \in Guilds |-> NoConn]
    /\ Return(p, "disconnect", NoConn, FALSE, callOpens[p])
    /\ UNCHANGED <<hState, hGuild, hChannel, hReady>>
    /\ UNCHANGED speakVars

DisconnectDelete(p) ==
    /\ pc[p] = "dDelete"
    /\ voiceConns' = [voiceConns EXCEPT ![argG[p]] = NoConn]
    /\ Return(p, "disconnect", NoConn, FALSE, callOpens[p])
    /\ UNCHANGED <<hState, hGuild, hChannel, hReady>>
    /\ UNCHANGED speakVars

\* ------------------------------------------------ the voice transport

\* the library clears Ready on an open handle (the connection dropped)
TransportDrop(h) ==
    /\ hState[h] = "open"
    /\ hReady[h]
    /\ hReady' = [hReady EXCEPT ![h] = FALSE]
    /\ out' = NoOut
    /\ UNCHANGED <<voiceConns, voiceMu, hState, hGuild, hChannel, pc, argG,
                   argC, vcLocal, entrySnap, callOpens, callCloses>>
    /\ UNCHANGED speakVars

\* ------------------------------------------------------------ SpeakText

\* no SpeakText call has been made: no handle is speaking, no frame is queued
SpeakIdle ==
    /\ speaking = [h \in Handles |-> FALSE]
    /\ opusSend = [h \in Handles |-> <<>>]
    /\ spc = "idle"
    /\ svc = NoConn
    /\ ctxDone = FALSE
    /\ pcm = <<>>
    /\ idx = 0
    /\ opusData = 0
    /\ sret = "none"
    /\ encoded = <<>>
    /\ accepted = <<>>

\* lines 135-145: sample := pcm[i:end] with end = min(i + frameSize*channels,
\* len(pcm)), zero-padded to frameSize*channels samples when shorter
ChunkNoPad(s, i) ==
    SubSeq(s, i + 1, IF i + FrameLen > Len(s) THEN Len(s) ELSE i + FrameLen)

Chunk(s, i) ==
    LET end == IF i + FrameLen > Len(s) THEN Len(s) ELSE i + FrameLen
        sample == SubSeq(s, i + 1, end)
    IN  IF Len(sample) < FrameLen
          THEN sample \o [k \in 1 .. FrameLen - Len(sample) |-> 0]
          ELSE sample

\* the frame enc.Encode produces for the chunk at offset i, named by the
\* chunk's position in the utterance (its bytes are the encoder's business)
FrameOf(i) == i \div FrameLen + 1

\* return r; the deferred vc.Speaking(false) of line 132 runs when the call
\* got past line 131
SpeakReturnStay(r, deferred) ==
    /\ spc' = spc
    /\ sret' = r
    /\ speaking' = IF deferred THEN [speaking EXCEPT ![svc] = FALSE] ELSE speaking

SpeakReturn(r, deferred) ==
    /\ spc' = "done"
    /\ sret' = r
    /\ speaking' = IF deferred THEN [speaking EXCEPT ![svc] = FALSE] ELSE speaking

\* line 70: SpeakText(ctx, vc, text) is called with an open handle
SpeakCallLocking(h) ==
    /\ spc = "idle"
    /\ hState[h] = "open"
    /\ CanLock
    /\ voiceMu' = 0 - 1
    /\ svc' = h
    /\ spc' = "synth"
    /\ UNCHANGED <<speaking, opusSend, ctxDone, pcm, idx, opusData, sret,
                   encoded, accepted>>
    /\ UNCHANGED <<voiceConns, hState, hGuild, hChannel, hReady, pc, argG,
                   argC, vcLocal, entrySnap, callOpens, callCloses, out>>

SpeakCall(h) ==
    /\ spc = "idle"
    /\ hState[h] = "open"
    /\ svc' = h
    /\ spc' = "synth"
    /\ UNCHANGED <<speaking, opusSend, ctxDone, pcm, idx, opusData, sret,
                   encoded, accepted>>
    /\ UNCHANGED regVars

\* lines 71-86: s.client.CreateSpeech and io.ReadAll; either may fail
SpeakSynth ==
    /\ spc = "synth"
    /\ \/ /\ spc' = "decode"
          /\ UNCHANGED <<sret, speaking>>
       \/ SpeakReturn("synthesis", FALSE)
    /\ UNCHANGED <<opusSend, svc, ctxDone, pcm, idx, opusData, encoded, accepted>>
    /\ UNCHANGED regVars

\* lines 88-117: mp3.NewDecoder and the read loop that fills pcm; the decoder
\* may fail, else any sample sequence can come out of it
SpeakDecode ==
    /\ spc = "decode"
    /\ \/ /\ \E s \in PcmSeqs : pcm' = s
          /\ spc' = "encoder"
          /\ UNCHANGED <<sret, speaking>>
       \/ /\ SpeakReturn("decode", FALSE)
          /\ UNCHANGED pcm
    /\ UNCHANGED <<opusSend, svc, ctxDone, idx, opusData, encoded, accepted>>
    /\ UNCHANGED regVars

\* lines 121-129: opus.NewEncoder; may fail
SpeakEncoder ==
    /\ spc = "encoder"
    /\ \/ /\ spc' = "speakOn"
          /\ UNCHANGED <<sret, speaking>>
       \/ SpeakReturn("encoder", FALSE)
    /\ UNCHANGED <<opusSend, svc, ctxDone, pcm, idx, opusData, encoded, accepted>>
    /\ UNCHANGED regVars

\* lines 131-134: vc.Speaking(true); defer vc.Speaking(false); i := 0
SpeakingOnSkip ==
    /\ spc = "speakOn"
    /\ idx' = 0
    /\ spc' = "loop"
    /\ UNCHANGED <<speaking, opusSend, svc, ctxDone, pcm, opusData, sret,
                   encoded, accepted>>
    /\ UNCHANGED regVars

SpeakingOn ==
    /\ spc = "speakOn"
    /\ speaking' = [speaking EXCEPT ![svc] = TRUE]
    /\ idx' = 0
    /\ spc' = "loop"
    /\ UNCHANGED <<opusSend, svc, ctxDone, pcm, opusData, sret, encoded, accepted>>
    /\ UNCHANGED regVars

\* lines 134-153 and 163: the loop test, the chunk and enc.Encode, which may
\* fail; the loop ends with return nil
SpeakEncodeSendsBad ==
    /\ spc = "loop"
    /\ \/ /\ idx < Len(pcm)
          /\ encoded' = Append(encoded, Chunk(pcm, idx))
          /\ opusData' = FrameOf(idx)
          /\ spc' = "send"
          /\ UNCHANGED <<sret, speaking, opusSend, accepted>>
       \/ /\ idx < Len(pcm)
          /\ encoded' = Append(encoded, Chunk(pcm, idx))
          /\ opusSend' = [opusSend EXCEPT ![svc] = Append(@, FrameOf(idx))]
          /\ accepted' = Append(accepted, FrameOf(idx))
          /\ SpeakReturn("encode", TRUE)
          /\ UNCHANGED opusData
       \/ /\ idx >= Len(pcm)
          /\ SpeakReturn("nil", TRUE)
          /\ UNCHANGED <<encoded, opusData, opusSend, accepted>>
    /\ UNCHANGED <<svc, ctxDone, pcm, idx>>
    /\ UNCHANGED regVars

SpeakEncode ==
    /\ spc = "loop"
    /\ \/ /\ idx < Len(pcm)
          /\ encoded' = Append(encoded, Chunk(pcm, idx))
          /\ opusData' = FrameOf(idx)
          /\ spc' = "send"
          /\ UNCHANGED <<sret, speaking>>
       \/ /\ idx < Len(pcm)
          /\ encoded' = Append(encoded, Chunk(pcm, idx))
          /\ SpeakReturn("encode", TRUE)
          /\ UNCHANGED opusData
       \/ /\ idx >= Len(pcm)
          /\ SpeakReturn("nil", TRUE)
          /\ UNCHANGED <<encoded, opusData>>
    /\ UNCHANGED <<opusSend, svc, ctxDone, pcm, idx, accepted>>
    /\ UNCHANGED regVars

\* lines 155-157 and the loop step i += frameSize * channels: the channel
\* takes the frame when it has room
SpeakSendSkip ==
    /\ spc = "send"
    /\ Len(opusSend[svc]) < OpusSendCap
    /\ opusSend' = [opusSend EXCEPT ![svc] = Append(@, opusData)]
    /\ accepted' = Append(accepted, opusData)
    /\ idx' = idx + 2 * FrameLen
    /\ spc' = "loop"
    /\ UNCHANGED <<speaking, svc, ctxDone, pcm, opusData, sret, encoded>>
    /\ UNCHANGED regVars

SpeakSend ==
    /\ spc = "send"
    /\ Len(opusSend[svc]) < OpusSendCap
    /\ opusSend' = [opusSend EXCEPT ![svc] = Append(@, opusData)]
    /\ accepted' = Append(accepted, opusData)
    /\ idx' = idx + FrameLen
    /\ spc' = "loop"
    /\ UNCHANGED <<speaking, svc, ctxDone, pcm, opusData, sret, encoded>>
    /\ UNCHANGED regVars

\* lines 158-159: case <-ctx.Done(): return ctx.Err()
SpeakCancelledNoReset ==
    /\ spc = "send"
    /\ ctxDone
    /\ SpeakReturn("cancelled", FALSE)
    /\ UNCHANGED <<opusSend, svc, ctxDone, pcm, idx, opusData, encoded, accepted>>
    /\ UNCHANGED regVars

SpeakCancelled ==
    /\ spc = "send"
    /\ ctxDone
    /\ SpeakReturn("cancelled", TRUE)
    /\ UNCHANGED <<opusSend, svc, ctxDone, pcm, idx, opusData, encoded, accepted>>
    /\ UNCHANGED regVars

\* the caller cancels the context of the running call
CtxCancel ==
    /\ spc \notin {"idle", "done"}
    /\ ~ctxDone
    /\ ctxDone' = TRUE
    /\ UNCHANGED <<speaking, opusSend, spc, svc, pcm, idx, opusData, sret,
                   encoded, accepted>>
    /\ UNCHANGED regVars

\* the transport's sender takes the next frame out of vc.OpusSend
OpusSender(h) ==
    /\ hState[h] = "open"
    /\ opusSend[h] # <<>>
    /\ opusSend' = [opusSend EXCEPT ![h] = Tail(@)]
    /\ UNCHANGED <<speaking, spc, svc, ctxDone, pcm, idx, opusData, sret,
                   encoded, accepted>>
    /\ UNCHANGED regVars

\* -------------------------------------------------------- ListenToVoice

\* no ListenToVoice call has been made
ListenIdle ==
    /\ lpc = "idle"
    /\ lvc = NoConn
    /\ lctxDone = FALSE
    /\ timerFired = FALSE
    /\ pcmBuffer = <<>>
    /\ wavBuffer = <<>>
    /\ lret = "none"
    /\ transcribeCalls = 0
    /\ heard = <<>>
    /\ arrived = 0
    /\ lcancelPc = "none"

\* little-endian bytes written by binary.Write for an int16 and an int32; the
\* int32 values of the model are non-negative and below 2^31
LE16(x) == LET u == x % 65536 IN <<u % 256, u \div 256>>
LE32(x) == <<x % 256, (x \div 256) % 256, (x \div 65536) % 256,
             (x \div 16777216) % 256>>

\* lines 236-278: the 44 bytes writeWAVHeader writes
writeWAVHeader(numSamples, sampleRate, chans, bitsPerSample) ==
    LET dataSize == numSamples * chans * (bitsPerSample \div 8)
        fileSize == 36 + dataSize
    IN  TagRIFF \o LE32(fileSize) \o TagWAVE
        \o TagFmt \o LE32(16) \o LE16(1) \o LE16(chans) \o LE32(sampleRate)
        \o LE32((sampleRate * chans * bitsPerSample) \div 8)
        \o LE16((chans * bitsPerSample) \div 8) \o LE16(bitsPerSample)
        \o TagData \o LE32(dataSize)

\* lines 214-218: binary.Write(wavBuffer, binary.LittleEndian, sample) for
\* every sample of the buffer
SampleBytes(buf) ==
    [i \in 1 .. 2 * Len(buf) |->
        IF i % 2 = 1 THEN LE16(buf[(i + 1) \div 2])[1] ELSE LE16(buf[i \div 2])[2]]

\* lines 207-218: the container ListenToVoice uploads for the buffer buf
WavFile(buf) ==
    writeWAVHeader(Len(buf), frameRate, channels, 16) \o SampleBytes(buf)

\* what the steps of ListenToVoice leave alone outside its own variables
ListenFrame == UNCHANGED regVars /\ UNCHANGED speakLocal

\* lines 167-177: ListenToVoice(ctx, vc) is called with an open handle;
\* opus.NewDecoder may fail, else the 5 second timer is started
ListenCall(h) ==
    /\ lpc = "idle"
    /\ hState[h] = "open"
    /\ lvc' = h
    /\ \/ lpc' = "listen" /\ UNCHANGED lret
       \/ lpc' = "done" /\ lret' = "decoder"
    /\ UNCHANGED <<lctxDone, timerFired, pcmBuffer, wavBuffer, transcribeCalls,
                   heard, arrived, lcancelPc, opusSend>>
    /\ ListenFrame

\* lines 180-192: case data := <-vc.OpusSend; a nil frame is skipped, a frame
\* the decoder rejects is logged and skipped, else pcm[:n] is appended
ListenRecvOverwrite ==
    /\ lpc = "listen"
    /\ opusSend[lvc] # <<>>
    /\ LET data == Head(opusSend[lvc])
       IN  \/ /\ data = NilFrame
              /\ heard' = Append(heard, [kind |-> "nil", pcm |-> <<>>])
              /\ UNCHANGED <<pcmBuffer, lpc, lret>>
           \/ /\ data # NilFrame
              /\ heard' = Append(heard, [kind |-> "bad", pcm |-> <<>>])
              /\ UNCHANGED <<pcmBuffer, lpc, lret>>
           \/ /\ data # NilFrame
              /\ \E d \in DecodedSeqs :
                    /\ heard' = Append(heard, [kind |-> "audio", pcm |-> d])
                    /\ pcmBuffer' = d
              /\ UNCHANGED <<lpc, lret>>
    /\ opusSend' = [opusSend EXCEPT ![lvc] = Tail(@)]
    /\ UNCHANGED <<lvc, lctxDone, timerFired, wavBuffer, transcribeCalls,
                   arrived, lcancelPc>>
    /\ ListenFrame

ListenRecvAbort ==
    /\ lpc = "listen"
    /\ opusSend[lvc] # <<>>
    /\ LET data == Head(opusSend[lvc])
       IN  \/ /\ data = NilFrame
              /\ heard' = Append(heard, [kind |-> "nil", pcm |-> <<>>])
              /\ UNCHANGED <<pcmBuffer, lpc, lret>>
           \/ /\ data # NilFrame
              /\ heard' = Append(heard, [kind |-> "bad", pcm |-> <<>>])
              /\ lpc' = "done"
              /\ lret' = "decode"
              /\ UNCHANGED pcmBuffer
           \/ /\ data # NilFrame
              /\ \E d \in DecodedSeqs :
                    /\ heard' = Append(heard, [kind |-> "audio", pcm |-> d])
                    /\ pcmBuffer' = pcmBuffer \o d
              /\ UNCHANGED <<lpc, lret>>
    /\ opusSend' = [opusSend EXCEPT ![lvc] = Tail(@)]
    /\ UNCHANGED <<lvc, lctxDone, timerFired, wavBuffer, transcribeCalls,
                   arrived, lcancelPc>>
    /\ ListenFrame

ListenRecv ==
    /\ lpc = "listen"
    /\ opusSend[lvc] # <<>>
    /\ LET data == Head(opusSend[lvc])
       IN  \/ /\ data = NilFrame
              /\ heard' = Append(heard, [kind |-> "nil", pcm |-> <<>>])
              /\ UNCHANGED <<pcmBuffer, lpc, lret>>
           \/ /\ data # NilFrame
              /\ heard' = Append(heard, [kind |-> "bad", pcm |-> <<>>])
              /\ UNCHANGED <<pcmBuffer, lpc, lret>>
           \/ /\ data # NilFrame
              /\ \E d \in DecodedSeqs :
                    /\ heard' = Append(heard, [kind |-> "audio", pcm |-> d])
                    /\ pcmBuffer' = pcmBuffer \o d
              /\ UNCHANGED <<lpc, lret>>
    /\ opusSend' = [opusSend EXCEPT ![lvc] = Tail(@)]
    /\ UNCHANGED <<lvc, lctxDone, timerFired, wavBuffer, transcribeCalls,
                   arrived, lcancelPc>>
    /\ ListenFrame

\* lines 193-195: case <-timeout: goto transcription
ListenTimeoutAfterFrames ==
    /\ lpc = "listen"
    /\ timerFired
    /\ opusSend[lvc] = <<>>
    /\ lpc' = "transcribe"
    /\ UNCHANGED <<lvc, lctxDone, timerFired, pcmBuffer, wavBuffer, lret,
                   transcribeCalls, heard, arrived, lcancelPc, opusSend>>
    /\ ListenFrame

ListenTimeout ==
    /\ lpc = "listen"
    /\ timerFired
    /\ lpc' = "transcribe"
    /\ UNCHANGED <<lvc, lctxDone, timerFired, pcmBuffer, wavBuffer, lret,
                   transcribeCalls, heard, arrived, lcancelPc, opusSend>>
    /\ ListenFrame

\* lines 196-197: case <-ctx.Done(): return "", ctx.Err()
ListenCancelled ==
    /\ lpc = "listen"
    /\ lctxDone
    /\ lpc' = "done"
    /\ lret' = "cancelled"
    /\ UNCHANGED <<lvc, lctxDone, timerFired, pcmBuffer, wavBuffer,
                   transcribeCalls, heard, arrived, lcancelPc, opusSend>>
    /\ ListenFrame

\* lines 201-218: the empty-buffer test, then the header and the samples are
\* written into wavBuffer
ListenTranscribeNoCheck ==
    /\ lpc = "transcribe"
    /\ wavBuffer' = WavFile(pcmBuffer)
    /\ lpc' = "upload"
    /\ UNCHANGED <<lvc, lctxDone, timerFired, pcmBuffer, lret, transcribeCalls,
                   heard, arrived, lcancelPc, opusSend>>
    /\ ListenFrame

ListenTranscribe ==
    /\ lpc = "transcribe"
    /\ IF Len(pcmBuffer) = 0
         THEN /\ lpc' = "done"
              /\ lret' = "noaudio"
              /\ UNCHANGED wavBuffer
         ELSE /\ wavBuffer' = WavFile(pcmBuffer)
              /\ lpc' = "upload"
              /\ UNCHANGED lret
    /\ UNCHANGED <<lvc, lctxDone, timerFired, pcmBuffer, transcribeCalls,
                   heard, arrived, lcancelPc, opusSend>>
    /\ ListenFrame

\* lines 221-232: s.client.CreateTranscription; it may fail
ListenUpload ==
    /\ lpc = "upload"
    /\ transcribeCalls' = transcribeCalls + 1
    /\ lpc' = "done"
    /\ \/ lret' = "ok"
       \/ lret' = "transcription"
    /\ UNCHANGED <<lvc, lctxDone, timerFired, pcmBuffer, wavBuffer, heard,
                   arrived, lcancelPc, opusSend>>
    /\ ListenFrame

\* the 5 seconds of time.After (line 177) elapse
TimerFire ==
    /\ lpc = "listen"
    /\ ~timerFired
    /\ timerFired' = TRUE
    /\ UNCHANGED <<lpc, lvc, lctxDone, pcmBuffer, wavBuffer, lret,
                   transcribeCalls, heard, arrived, lcancelPc, opusSend>>
    /\ ListenFrame

\* the caller cancels the context of the running call
ListenCtxCancel ==
    /\ lpc \in {"listen", "transcribe", "upload"}
    /\ ~lctxDone
    /\ lctxDone' = TRUE
    /\ lcancelPc' = lpc
    /\ UNCHANGED <<lpc, lvc, timerFired, pcmBuffer, wavBuffer, lret,
                   transcribeCalls, heard, arrived, opusSend>>
    /\ ListenFrame

\* another goroutine sends the frame f into vc.OpusSend of an open handle
FrameArrives(h, f) ==
    /\ arrived < MaxArrivals
    /\ hState[h] = "open"
    /\ Len(opusSend[h]) < OpusSendCap
    /\ opusSend' = [opusSend EXCEPT ![h] = Append(@, f)]
    /\ arrived' = arrived + 1
    /\ UNCHANGED <<lpc, lvc, lctxDone, timerFired, pcmBuffer, wavBuffer, lret,
                   transcribeCalls, heard, lcancelPc>>
    /\ ListenFrame

\* ------------------------------------------- the read loop of SpeakText

\* the read loop is not running
DecIdle ==
    /\ mp3Bytes = <<>>
    /\ readPos = 0
    /\ readSizes = <<>>
    /\ dpcm = <<>>
    /\ dpc = "idle"

\* the int16 with the bits of v
Int16(v) == LET u == v % 65536 IN IF u >= 32768 THEN u - 65536 ELSE u

\* lines 110-116: the samples the inner loop appends for the bytes b of one
\* read, int16(b[i]) | int16(b[i+1])<<8 for i = 0, 2, ... below len(b) - 1
PairsOf(b) == [k \in 1 .. Len(b) \div 2 |-> Int16(b[2 * k - 1] + 256 * b[2 * k])]

\* lines 99 and 106-116: decoder.Read fills byteBuffer with the next n bytes,
\* n at most len(byteBuffer); n = 0 without an error is skipped
DecRead(n) ==
    /\ dpc = "read"
    /\ n <= Len(mp3Bytes) - readPos
    /\ readPos' = readPos + n
    /\ readSizes' = IF n = 0 THEN readSizes ELSE Append(readSizes, n)
    /\ dpcm' = dpcm \o PairsOf(SubSeq(mp3Bytes, readPos + 1, readPos + n))
    /\ UNCHANGED <<mp3Bytes, dpc>>

\* lines 100-102: decoder.Read returns io.EOF when the stream is exhausted
DecEOF ==
    /\ dpc = "read"
    /\ readPos = Len(mp3Bytes)
    /\ dpc' = "eof"
    /\ UNCHANGED <<mp3Bytes, readPos, readSizes, dpcm>>

\* lines 103-104: decoder.Read returns another error
DecFail ==
    /\ dpc = "read"
    /\ dpc' = "failed"
    /\ UNCHANGED <<mp3Bytes, readPos, readSizes, dpcm>>

\* lines 88-97: mp3.NewDecoder on the synthesized audio; it may fail, else
\* the read loop starts on the byte stream the decoder will deliver
DecBegin ==
    /\ spc = "decode"
    /\ dpc = "idle"
    /\ \/ /\ mp3Bytes' \in ByteStreams
          /\ dpc' = "read"
          /\ UNCHANGED <<spc, sret, speaking>>
       \/ /\ SpeakReturn("decode", FALSE)
          /\ UNCHANGED <<mp3Bytes, dpc>>
    /\ UNCHANGED <<readPos, readSizes, dpcm>>
    /\ UNCHANGED <<opusSend, svc, ctxDone, pcm, idx, opusData, encoded, accepted>>
    /\ UNCHANGED regVars

\* lines 101-102 and 121: after io.EOF the loop is left with the samples read
DecDone ==
    /\ spc = "decode"
    /\ dpc = "eof"
    /\ pcm' = dpcm
    /\ spc' = "encoder"
    /\ UNCHANGED decVars
    /\ UNCHANGED <<speaking, opusSend, svc, ctxDone, idx, opusData, sret,
                   encoded, accepted>>
    /\ UNCHANGED regVars

\* line 104: return fmt.Errorf("failed to decode MP3: %v", err)
DecAbortUsesPartial ==
    /\ spc = "decode"
    /\ dpc = "failed"
    /\ pcm' = dpcm
    /\ spc' = "encoder"
    /\ UNCHANGED decVars
    /\ UNCHANGED <<speaking, opusSend, svc, ctxDone, idx, opusData, sret,
                   encoded, accepted>>
    /\ UNCHANGED regVars

DecAbort ==
    /\ spc = "decode"
    /\ dpc = "failed"
    /\ SpeakReturn("decode", FALSE)
    /\ UNCHANGED decVars
    /\ UNCHANGED <<opusSend, svc, ctxDone, pcm, idx, opusData, encoded, accepted>>
    /\ UNCHANGED regVars

\* ------------------------------------------------------ specification

\* no SpeakText context has been cancelled, no synthesis call has been made
SpeakNotes == cancelAt = 0 - 1 /\ synthCalls = 0

Init ==
    /\ RegInit
    /\ got = [p \in Procs |-> NoOut]
    /\ SpeakIdle
    /\ SpeakNotes
    /\ ListenIdle
    /\ DecIdle

\* a step of the registry or of SpeakText leaves the rest alone
Quiet ==
    /\ UNCHANGED <<got, cancelAt, synthCalls>>
    /\ UNCHANGED listenVars
    /\ UNCHANGED decVars

\* a step of the registry or of ListenToVoice leaves the notes alone
ListenOnly ==
    /\ UNCHANGED <<got, cancelAt, synthCalls>>
    /\ UNCHANGED decVars

\* line 76 is one call of s.client.CreateSpeech
SynthStep ==
    /\ SpeakSynth
    /\ synthCalls' = synthCalls + 1
    /\ UNCHANGED <<got, cancelAt>>
    /\ UNCHANGED listenVars
    /\ UNCHANGED decVars

\* the cancellation; when it comes while the frames are being streamed, the
\* number of frames accepted before it is noted
CancelStep ==
    /\ CtxCancel
    /\ cancelAt' = IF spc \in {"loop", "send"} THEN Len(accepted) ELSE cancelAt
    /\ UNCHANGED <<got, synthCalls>>
    /\ UNCHANGED listenVars
    /\ UNCHANGED decVars

\* the registry under any interleaving of joins, leaves and connection drops
Next ==
    \/ \E p \in Callers, g \in Guilds, c \in Channels :
          JoinEnter(p, g, c) /\ Quiet
    \/ \E p \in Callers : JoinCheck(p) /\ Quiet
    \/ \E p \in Callers : JoinClose(p) /\ Quiet
    \/ \E p \in Callers : JoinOpen(p) /\ Quiet
    \/ \E p \in Callers : JoinStore(p) /\ Quiet
    \/ \E p \in Callers, g \in Guilds : DisconnectEnter(p, g) /\ Quiet
    \/ \E p \in Callers : DisconnectCheck(p) /\ Quiet
    \/ \E p \in Callers : DisconnectClose(p) /\ Quiet
    \/ \E p \in Callers : DisconnectDelete(p) /\ Quiet
    \/ \E h \in Handles : TransportDrop(h) /\ Quiet

Spec == Init /\ [][Next]_vars

\* NumJoiners callers each call JoinVoiceChannel("g1", "c1") once, concurrently,
\* starting from the empty registry, and each keeps the result it receives
Keep(p) ==
    /\ got' = IF out'.p = p THEN [got EXCEPT ![p] = out'] ELSE got
    /\ UNCHANGED <<cancelAt, synthCalls>>
    /\ UNCHANGED listenVars
    /\ UNCHANGED decVars

JoinOnce(p) ==
    /\ got[p] = NoOut
    /\ JoinEnter(p, "g1", "c1")

NextJoinN ==
    \/ \E p \in Joiners : JoinOnce(p) /\ Keep(p)
    \/ \E p \in Joiners : JoinCheck(p) /\ Keep(p)
    \/ \E p \in Joiners : JoinOpen(p) /\ Keep(p)
    \/ \E p \in Joiners : JoinStore(p) /\ Keep(p)
    \/ \E h \in Handles : TransportDrop(h) /\ Quiet

SpecJoinN == Init /\ [][NextJoinN]_vars

\* one SpeakText call on a handle that JoinVoiceChannel("g1", "c1") returned
JoinedInit ==
    /\ voiceConns = [EmptyMap EXCEPT !["g1"] = 1]
    /\ voiceMu = 0
    /\ hState = [h \in Handles |-> IF h = 1 THEN "open" ELSE "unopened"]
    /\ hGuild = [h \in Handles |-> "g1"]
    /\ hChannel = [h \in Handles |-> "c1"]
    /\ hReady = [h \in Handles |-> h = 1]
    /\ pc = [p \in Procs |-> "idle"]
    /\ argG = [p \in Procs |-> "g1"]
    /\ argC = [p \in Procs |-> "c1"]
    /\ vcLocal = [p \in Procs |-> NoConn]
    /\ entrySnap = [p \in Procs |-> EmptyMap]
    /\ callOpens = [p \in Procs |-> 0]
    /\ callCloses = [p \in Procs |-> 0]
    /\ out = NoOut

InitSpeak ==
    /\ JoinedInit
    /\ got = [p \in Procs |-> NoOut]
    /\ SpeakIdle
    /\ SpeakNotes
    /\ ListenIdle
    /\ DecIdle

NextSpeak ==
    \/ \E h \in Handles : SpeakCall(h) /\ Quiet
    \/ SynthStep
    \/ SpeakDecode /\ Quiet
    \/ SpeakEncoder /\ Quiet
    \/ SpeakingOn /\ Quiet
    \/ SpeakEncode /\ Quiet
    \/ SpeakSend /\ Quiet
    \/ SpeakCancelled /\ Quiet
    \/ CancelStep
    \/ \E h \in Handles : OpusSender(h) /\ Quiet

SpecSpeak == InitSpeak /\ [][NextSpeak]_vars

\* one ListenToVoice call on a handle that JoinVoiceChannel("g1", "c1")
\* returned, while other goroutines send frames into vc.OpusSend and the
\* transport's sender drains it
NextListen ==
    \/ \E h \in Handles : ListenCall(h) /\ ListenOnly
    \/ ListenRecv /\ ListenOnly
    \/ ListenTimeout /\ ListenOnly
    \/ ListenCancelled /\ ListenOnly
    \/ ListenTranscribe /\ ListenOnly
    \/ ListenUpload /\ ListenOnly
    \/ TimerFire /\ ListenOnly
    \/ ListenCtxCancel /\ ListenOnly
    \/ \E h \in Handles, f \in {NilFrame, ForeignFrame} :
          FrameArrives(h, f) /\ ListenOnly
    \/ \E h \in Handles : OpusSender(h) /\ Quiet

SpecListen == InitSpeak /\ [][NextListen]_vars

\* the select of lines 179-198 picks at random among its ready cases, so a
\* case that stays ready is taken in the end
SpecListenFair ==
    /\ InitSpeak
    /\ [][NextListen]_vars
    /\ WF_vars(ListenTimeout /\ ListenOnly)

\* the SpeakText goroutine keeps running: the loop step is taken when it can
\* be, and so is a case of the select of lines 155-160 that stays ready
SpecSpeakFair ==
    /\ InitSpeak
    /\ [][NextSpeak]_vars
    /\ WF_vars(SpeakEncode /\ Quiet)
    /\ WF_vars(SpeakSend /\ Quiet)
    /\ WF_vars(SpeakCancelled /\ Quiet)

\* the read loop of SpeakText (lines 96-117) on any byte stream, delivered in
\* reads of any sizes
InitDecode ==
    /\ JoinedInit
    /\ got = [p \in Procs |-> NoOut]
    /\ SpeakIdle
    /\ SpeakNotes
    /\ ListenIdle
    /\ mp3Bytes \in ByteStreams
    /\ readPos = 0
    /\ readSizes = <<>>
    /\ dpcm = <<>>
    /\ dpc = "read"

\* a step of the read loop leaves the rest alone
DecodeOnly ==
    /\ UNCHANGED <<regVars, got, speakVars, cancelAt, synthCalls>>
    /\ UNCHANGED listenVars

NextDecode ==
    \/ \E n \in 0 .. maxBytes : DecRead(n) /\ DecodeOnly
    \/ DecEOF /\ DecodeOnly
    \/ DecFail /\ DecodeOnly

SpecDecode == InitDecode /\ [][NextDecode]_vars

\* the utterances of the two scenarios below: none, one sample, one frame and
\* one sample
ShortPcm == {[j \in 1 .. n |-> 7] : n \in {0, 1, FrameLen + 1}}

\* one client, from the empty registry: a JoinVoiceChannel call of caller 1,
\* then a SpeakText call on the handle it returned, then, when that has
\* returned nil, a ListenToVoice call on the same handle
NextSession ==
    \/ out = NoOut /\ spc = "idle" /\ JoinOnce(1) /\ Quiet
    \/ JoinCheck(1) /\ Quiet
    \/ JoinOpen(1) /\ Quiet
    \/ JoinStore(1) /\ Quiet
    \/ \E h \in Handles :
          out.op = "join" /\ out.h = h /\ SpeakCall(h) /\ Quiet
    \/ SynthStep
    \/ SpeakDecode /\ pcm' \in ShortPcm /\ Quiet
    \/ SpeakEncoder /\ Quiet
    \/ SpeakingOn /\ Quiet
    \/ SpeakEncode /\ Quiet
    \/ SpeakSend /\ Quiet
    \/ SpeakCancelled /\ Quiet
    \/ CancelStep
    \/ \E h \in Handles : OpusSender(h) /\ Quiet
    \/ \E h \in Handles :
          spc = "done" /\ sret = "nil" /\ svc = h /\ ListenCall(h) /\ ListenOnly
    \/ ListenRecv /\ ListenOnly
    \/ ListenTimeout /\ ListenOnly
    \/ ListenCancelled /\ ListenOnly
    \/ ListenTranscribe /\ ListenOnly
    \/ ListenUpload /\ ListenOnly
    \/ TimerFire /\ ListenOnly
    \/ ListenCtxCancel /\ ListenOnly
    \/ \E h \in Handles, f \in {NilFrame, ForeignFrame} :
          lpc = "listen" /\ arrived = 0 /\ FrameArrives(h, f) /\ ListenOnly

SpecSession == Init /\ [][NextSession]_vars

\* a step of SpeakText and its read loop together leaves the rest alone
StreamOnly ==
    /\ UNCHANGED <<got, cancelAt, synthCalls>>
    /\ UNCHANGED listenVars

\* one SpeakText call on the joined handle, the decoding of lines 88-117
\* spelled out as the read loop on a byte stream
NextSpeakStream ==
    \/ \E h \in Handles : SpeakCall(h) /\ Quiet
    \/ SynthStep
    \/ DecBegin /\ StreamOnly
    \/ \E n \in 0 .. maxBytes : DecRead(n) /\ DecodeOnly
    \/ DecEOF /\ DecodeOnly
    \/ DecFail /\ DecodeOnly
    \/ DecDone /\ StreamOnly
    \/ DecAbort /\ StreamOnly
    \/ SpeakEncoder /\ Quiet
    \/ SpeakingOn /\ Quiet
    \/ SpeakEncode /\ Quiet
    \/ SpeakSend /\ Quiet
    \/ SpeakCancelled /\ Quiet
    \/ CancelStep
    \/ \E h \in Handles : OpusSender(h) /\ Quiet

SpecSpeakStream == InitSpeak /\ [][NextSpeakStream]_vars

\* the SpeakText call waits in the select of line 155 with vc.OpusSend full
Blocked == spc = "send" /\ Len(opusSend[svc]) >= OpusSendCap

\* a SpeakText call on the joined handle while another goroutine sends frames
\* into vc.OpusSend, and caller 1 using the registry while that call is
\* blocked on its send
NextDuplex ==
    \/ \E h \in Handles : SpeakCall(h) /\ Quiet
    \/ SynthStep
    \/ SpeakDecode /\ pcm' \in ShortPcm /\ Quiet
    \/ \E h \in Handles : FrameArrives(h, ForeignFrame) /\ ListenOnly
    \/ SpeakEncoder /\ Quiet
    \/ SpeakingOn /\ Quiet
    \/ SpeakEncode /\ Quiet
    \/ SpeakSend /\ Quiet
    \/ \E h \in Handles : OpusSender(h) /\ Quiet
    \/ \E g \in Guilds, c \in Channels : Blocked /\ JoinEnter(1, g, c) /\ Quiet
    \/ JoinCheck(1) /\ Quiet
    \/ JoinClose(1) /\ Quiet
    \/ JoinOpen(1) /\ Quiet
    \/ JoinStore(1) /\ Quiet
    \/ \E g \in Guilds : Blocked /\ DisconnectEnter(1, g) /\ Quiet
    \/ DisconnectCheck(1) /\ Quiet
    \/ DisconnectClose(1) /\ Quiet
    \/ DisconnectDelete(1) /\ Quiet

SpecDuplex == InitSpeak /\ [][NextDuplex]_vars

TypeOK ==
    /\ voiceConns \in [Guilds -> Handles \cup {NoConn}]
    /\ voiceMu \in Procs \cup {0}
    /\ hState \in [Handles -> {"unopened", "open", "closed"}]
    /\ hReady \in [Handles -> BOOLEAN]
    /\ callOpens \in [Procs -> 0 .. 1]
    /\ callCloses \in [Procs -> 0 .. 1]

\* ------------------------------------------------------------- claims

\* C1: in every reachable state each guild has at most one transport handle
\* that has been opened and not yet closed.
C1_AtMostOneLiveHandle == \A g \in Guilds : Cardinality(Live(g)) <= 1

\* C2: when the NumJoiners concurrent callers of JoinVoiceChannel("g1", "c1")
\* have all returned, ChannelVoiceJoin was called exactly once and every caller
\* received the same handle.
AllReturned == \A p \in Joiners : pc[p] = "idle" /\ got[p] # NoOut
\* ChannelVoiceJoin calls of the callers that have returned
RECURSIVE SumOpens(_)
SumOpens(S) ==
    IF S = {} THEN 0
    ELSE LET p == CHOOSE x \in S : TRUE IN got[p].opens + SumOpens(S \ {p})
OpenCalls == SumOpens(Joiners)
SameHandleForAll ==
    \E h \in Handles : \A p \in Joiners : got[p].h = h /\ ~got[p].err
C3_JoinSameChannelIdempotent ==
    [][\A p \in Procs :
          (/\ pc[p] = "jCheck"
           /\ pc'[p] # "jCheck"
           /\ voiceConns[argG[p]] # NoConn
           /\ hReady[voiceConns[argG[p]]]
           /\ hChannel[voiceConns[argG[p]]] = argC[p])
             => (/\ pc'[p] = "idle"
                 /\ out' = [p |-> p, op |-> "join", g |-> argG[p],
                            h |-> voiceConns[argG[p]], err |-> FALSE,
                            opens |-> 0, closes |-> 0]
                 /\ voiceConns' = voiceConns
                 /\ voiceConns = entrySnap[p]
                 /\ <<hState, hGuild, hChannel, hReady>>' = <<hState, hGuild, hChannel, hReady>>)]_vars

\* a join has just returned the stored handle without opening or closing
C3_Witness ==
    /\ out.op = "join"
    /\ ~out.err
    /\ out.opens = 0
    /\ out.closes = 0
    /\ out.h # NoConn
    /\ voiceConns[out.g] = out.h

\* C4: a JoinVoiceChannel that finds a ready handle on another channel closes
\* one old handle, then opens one new handle, the close before the open, and
\* from the close on the guild never has two live handles.
Switching(p) == pc[p] \in {"jOpen", "jStore"} /\ callCloses[p] = 1
C4_SwitchClosesThenOpens ==
    \A p \in Procs :
        /\ pc[p] = "jClose" => (callCloses[p] = 0 /\ callOpens[p] = 0)
        /\ (pc[p] = "jOpen" /\ Switching(p)) =>
              (callOpens[p] = 0 /\ hState[entrySnap[p][argG[p]]] = "closed")
        /\ (pc[p] = "jStore" /\ Switching(p)) => callOpens[p] = 1
        /\ Switching(p) => Cardinality(Live(argG[p])) <= 1

\* C5: when ChannelVoiceJoin fails the call returns an error and the map is
\* what it was when the call began, with or without a previous entry.
C5_FailedOpenKeepsMap ==
    [][\A p \in Procs :
          (pc[p] = "jOpen" /\ pc'[p] = "idle")
             => (/\ out'.p = p
                 /\ out'.err
                 /\ out'.h = NoConn
                 /\ voiceConns' = entrySnap[p]
                 /\ hState' = hState)]_vars

\* a channel switch whose open failed has just returned: the map still holds
\* the old entry
C5_Witness ==
    /\ out.op = "join"
    /\ out.err
    /\ out.closes = 1
    /\ voiceConns[out.g] # NoConn

\* a first join whose open failed has just returned: the map has no entry
C5_WitnessNoEntry ==
    /\ out.op = "join"
    /\ out.err
    /\ out.closes = 0
    /\ voiceConns[out.g] = NoConn

\* C6: DisconnectVoice(guild) with an entry present makes exactly one Close
\* call, on that entry's handle, and removes the entry; with no entry it makes
\* no Close call and changes nothing (so a second call right after the first
\* closes nothing).
C6_DisconnectOnce ==
    [][\A p \in Procs :
          /\ (pc[p] = "dCheck" /\ pc'[p] # "dCheck" /\ voiceConns[argG[p]] = NoConn)
                => (/\ pc'[p] = "idle"
                    /\ out'.p = p
                    /\ out'.closes = 0
                    /\ voiceConns' = voiceConns
                    /\ <<hState, hGuild, hChannel, hReady>>' = <<hState, hGuild, hChannel, hReady>>)
          /\ (pc[p] = "dCheck" /\ pc'[p] # "dCheck" /\ voiceConns[argG[p]] # NoConn)
                => (pc'[p] = "dClose" /\ callCloses[p] = 0 /\ voiceConns' = voiceConns)
          /\ (pc[p] = "dClose" /\ pc'[p] # "dClose")
                => (/\ pc'[p] = "dDelete"
                    /\ callCloses'[p] = 1
                    /\ hState' = [hState EXCEPT ![entrySnap[p][argG[p]]] = "closed"]
                    /\ voiceConns' = voiceConns)
          /\ (pc[p] = "dDelete" /\ pc'[p] # "dDelete")
                => (/\ pc'[p] = "idle"
                    /\ out'.p = p
                    /\ out'.closes = 1
                    /\ hState' = hState
                    /\ voiceConns' = [entrySnap[p] EXCEPT ![argG[p]] = NoConn])]_vars

\* a DisconnectVoice has just returned after closing a handle and removing
\* the entry
C6_Witness ==
    /\ out.op = "disconnect"
    /\ out.closes = 1
    /\ voiceConns[out.g] = NoConn
    /\ \E h \in Handles : hState[h] = "closed" /\ hGuild[h] = out.g

\* C7: no two calls of JoinVoiceChannel / DisconnectVoice for the same guild
\* are inside their locked sections at the same time.
C7_MutualExclusion ==
    \A p, q \in Procs :
        (p # q /\ pc[p] \in CriticalPCs /\ pc[q] \in CriticalPCs)
            => argG[p] # argG[q]

\* a caller is between the close and the open of a channel switch
C7_Witness ==
    \E p \in Procs :
        /\ pc[p] = "jOpen"
        /\ callCloses[p] = 1
        /\ voiceMu = p

\* C8: the chunk loop hands the encoder blocks of exactly frameSize*channels
\* samples; the blocks in order spell the decoded sequence followed only by
\* zeros; and a call that runs through all chunks has handed over
\* ceil(L / (frameSize*channels)) of them, L the number of decoded samples.
RECURSIVE Flatten(_)
Flatten(ss) == IF ss = <<>> THEN <<>> ELSE Head(ss) \o Flatten(Tail(ss))
CeilDiv(a, b) == (a + b - 1) \div b
C8_ChunksExactAndPadded ==
    /\ \A k \in 1 .. Len(encoded) : Len(encoded[k]) = FrameLen
    /\ \A j \in 1 .. Len(Flatten(encoded)) :
          Flatten(encoded)[j] = IF j <= Len(pcm) THEN pcm[j] ELSE 0
    /\ (spc = "done" /\ sret = "nil") =>
          (/\ Len(encoded) = CeilDiv(Len(pcm), FrameLen)
           /\ Len(Flatten(encoded)) >= Len(pcm))

\* a call has gone through three chunks, the last one short and ending in a
\* non-zero sample
C8_Witness ==
    /\ spc = "done"
    /\ sret = "nil"
    /\ Len(encoded) = 3
    /\ Len(pcm) % FrameLen # 0
    /\ pcm[Len(pcm)] # 0

\* C9: within a SpeakText call the frames the channel has accepted are the
\* frames of chunks 1, 2, ..., k in that order, none twice and none skipped;
\* chunk k+1 is encoded or offered only when frames 1..k have been accepted;
\* the channel holds them in that order; a call that returns nil has had the
\* frame of every chunk accepted.
C9_FramesInOrder ==
    /\ accepted = [k \in 1 .. Len(accepted) |-> k]
    /\ Len(encoded) <= Len(accepted) + 1
    /\ \A k \in 1 .. Len(encoded) : encoded[k] = Chunk(pcm, (k - 1) * FrameLen)
    /\ spc = "send" => (opusData = Len(accepted) + 1 /\ Len(encoded) = opusData)
    /\ spc = "loop" => Len(encoded) = Len(accepted)
    /\ svc # NoConn =>
          \E n \in 0 .. Len(accepted) :
              opusSend[svc] = SubSeq(accepted, n + 1, Len(accepted))
    /\ (spc = "done" /\ sret = "nil") => Len(accepted) = CeilDiv(Len(pcm), FrameLen)

\* three frames have been accepted and the call has returned nil
C9_Witness ==
    /\ spc = "done"
    /\ sret = "nil"
    /\ accepted = <<1, 2, 3>>

\* C10: whenever a SpeakText call that has set the speaking flag returns, by
\* any exit, the flag of its handle is false.
PastSpeakingOn == spc \in {"loop", "send"}
C10_SpeakingResetOnReturn ==
    [][(PastSpeakingOn /\ spc' = "done") => ~speaking'[svc]]_vars

\* a call cancelled after one frame has returned with the flag down
C10_Witness ==
    /\ spc = "done"
    /\ sret = "cancelled"
    /\ Len(accepted) >= 1
    /\ ~speaking[svc]

\* frames the utterance pcm is cut into
NumFrames == CeilDiv(Len(pcm), FrameLen)

\* C11: when the context of SpeakText is cancelled after frame k of n has been
\* accepted (1 <= k < n), the call returns with the speaking flag false and
\* with at most k frames accepted in total.
C11_CancelAfterKSendsAtMostK ==
    (spc = "done" /\ cancelAt >= 1 /\ cancelAt < NumFrames)
        => (~speaking[svc] /\ Len(accepted) <= cancelAt)

\* C12: when the context of SpeakText is cancelled while frames of the
\* utterance are still to be accepted, the call returns the cancellation
\* error and never nil (a failure of the encoder aside).
C12_CancelNeverReturnsNil ==
    (spc = "done" /\ cancelAt >= 0 /\ cancelAt < NumFrames /\ sret # "encode")
        => sret = "cancelled"

\* the call left the capture loop through the timeout case
TimedOut == lpc \in {"transcribe", "upload"} \/ lret \in {"noaudio", "ok", "transcription"}

\* C13: when the capture window of ListenToVoice elapses with an empty buffer
\* (no frame arrived, or every frame was nil or failed to decode), the call
\* fails with the no-audio error, not with a cancellation error, and
\* CreateTranscription is not called.
C13_EmptyCaptureFailsNoAudio ==
    /\ (TimedOut /\ pcmBuffer = <<>>) =>
           (lpc # "upload" /\ transcribeCalls = 0 /\ (lpc = "done" => lret = "noaudio"))
    /\ lret = "cancelled" => lctxDone

C13_Witness ==
    /\ lpc = "done"
    /\ lret = "noaudio"
    /\ \E i, j \in 1 .. Len(heard) : heard[i].kind = "nil" /\ heard[j].kind = "bad"

\* C14: when the context of ListenToVoice is cancelled while the call is in
\* the capture loop, the call returns the cancellation error and never gets
\* to the transcription, CreateTranscription is never called, even when the
\* window elapses at the same moment.
C14_CancelWhileListening ==
    lcancelPc = "listen" =>
        /\ lpc \notin {"transcribe", "upload"}
        /\ transcribeCalls = 0
        /\ lpc = "done" => lret = "cancelled"

\* C15: a frame the decoder rejects leaves the call in the capture loop with
\* the buffer unchanged, and a frame decoded after such a failure is still
\* appended to the buffer.
C15_DecodeFailureKeepsListening ==
    [][Len(heard') = Len(heard) + 1 =>
         LET last == heard'[Len(heard')]
         IN  /\ last.kind = "bad" => (lpc' = "listen" /\ pcmBuffer' = pcmBuffer)
             /\ (last.kind = "audio" /\ \E i \in 1 .. Len(heard) : heard[i].kind = "bad")
                   => (lpc' = "listen" /\ pcmBuffer' = pcmBuffer \o last.pcm)]_vars

C15_Witness ==
    /\ lpc = "listen"
    /\ Len(heard) >= 2
    /\ heard[Len(heard) - 1].kind = "bad"
    /\ heard[Len(heard)].kind = "audio"
    /\ heard[Len(heard)].pcm # <<>>
    /\ pcmBuffer = heard[Len(heard)].pcm

\* a reader of the container: unsigned and signed little-endian fields at
\* byte offset i (from 1), and the samples the data chunk declares
U16(w, i) == w[i] + 256 * w[i + 1]
U32(w, i) == w[i] + 256 * w[i + 1] + 65536 * w[i + 2] + 16777216 * w[i + 3]
WavRead(w) ==
    LET bits == U16(w, 35)
        dataSize == U32(w, 41)
        n == dataSize \div (bits \div 8)
    IN  IF Len(w) - 44 < dataSize
          THEN [ok |-> FALSE, samples |-> <<>>, rate |-> U32(w, 25),
                chans |-> U16(w, 23)]
          ELSE [ok |-> TRUE,
                samples |-> [k \in 1 .. n |-> Int16(U16(w, 44 + 2 * k - 1))],
                rate |-> U32(w, 25), chans |-> U16(w, 23)]

\* C16: for every non-empty buffer that is uploaded, the data length declared
\* in the header equals the number of sample bytes written after the header,
\* two bytes for each sample of the buffer.
C16_DataSizeMatchesBytes ==
    wavBuffer # <<>> =>
        /\ U32(wavBuffer, 41) = Len(wavBuffer) - 44
        /\ U32(wavBuffer, 41) = 2 * Len(pcmBuffer)

\* C17: reading the uploaded container back by the sizes, channel count,
\* sample rate and bit depth its header declares gives exactly the samples of
\* the buffer, at the rate and channel count of the pipeline.
C17_WavRoundTrip ==
    wavBuffer # <<>> =>
        WavRead(wavBuffer) = [ok |-> TRUE, samples |-> pcmBuffer,
                              rate |-> frameRate, chans |-> channels]

\* C18: whatever the sizes of the reads in which the MP3 decoder delivers its
\* byte stream, the read loop ends with floor(total / 2) samples, sample i
\* being byte[2i] | byte[2i+1]<<8 of the whole stream; only an odd byte at the
\* very end of the stream is dropped.
C18_PairsOfWholeStream == dpc = "eof" => dpcm = PairsOf(mp3Bytes)

\* C19: no operation repeats an external call: one SpeakText call makes at
\* most one CreateSpeech call and offers no frame twice, one ListenToVoice call
\* makes at most one CreateTranscription call, one JoinVoiceChannel call makes
\* at most one ChannelVoiceJoin call, also when that call fails.
C19_NoRetry ==
    /\ synthCalls <= 1
    /\ transcribeCalls <= 1
    /\ \A p \in Procs : callOpens[p] <= 1
    /\ out.opens <= 1
    /\ Len(encoded) <= Len(accepted) + 1
    /\ \A i, j \in 1 .. Len(accepted) : i < j => accepted[i] < accepted[j]

C19_Witness ==
    /\ out.op = "join"
    /\ out.opens = 1
    /\ synthCalls = 1
    /\ Len(accepted) = 2
    /\ transcribeCalls = 1
    /\ lret = "transcription"

\* a failed JoinVoiceChannel call has made one ChannelVoiceJoin call
C19_WitnessFailedOpen == out.op = "join" /\ out.err /\ out.opens = 1

\* every step of caller p inside its critical section
RegStep(p) ==
    \/ JoinCheck(p) \/ JoinClose(p) \/ JoinOpen(p) \/ JoinStore(p)
    \/ DisconnectCheck(p) \/ DisconnectClose(p) \/ DisconnectDelete(p)

\* C20: SpeakText never holds voiceMu: while a SpeakText call is blocked on a
\* frame send with vc.OpusSend full, the lock is free or held by a registry
\* caller inside its critical section, an idle caller can enter
\* JoinVoiceChannel or DisconnectVoice for any guild, and a caller inside the
\* critical section can take its next step.
C20_SpeakTextNeverHoldsLock ==
    Blocked =>
        /\ voiceMu # 0 => (voiceMu \in Procs /\ pc[voiceMu] \in CriticalPCs)
        /\ voiceMu = 0 =>
              \A g \in Guilds :
                 /\ ENABLED DisconnectEnter(1, g)
                 /\ \A c \in Channels : ENABLED JoinEnter(1, g, c)
        /\ \A p \in Procs : pc[p] \in CriticalPCs => ENABLED RegStep(p)

C20_Witness ==
    /\ Blocked
    /\ out.op = "disconnect"
    /\ out.closes = 1
    /\ hState[svc] = "closed"

\* C21: in the state a JoinVoiceChannel or DisconnectVoice call returns to,
\* with or without an error, every handle stored in voiceConns is open: no
\* entry refers to a handle on which Close has been called.
C21_EntriesOpenAfterReturn ==
    out.op # "none" =>
        \A g \in Guilds : voiceConns[g] # NoConn => hState[voiceConns[g]] = "open"

\* C22: when enc.Encode fails on chunk j the SpeakText call returns the error
\* in that step: the frames of chunks 1 .. j-1 have been accepted and stay so,
\* no frame of chunk j is handed over, the speaking flag is false, and after
\* the return nothing more is encoded or handed over.
C22_EncodeFailureStopsAtOnce ==
    [][/\ (spc = "loop" /\ sret' = "encode") =>
            /\ spc' = "done"
            /\ accepted' = accepted
            /\ opusSend' = opusSend
            /\ Len(accepted) = Len(encoded') - 1
            /\ ~speaking'[svc]
       /\ sret = "encode" =>
            /\ spc' = "done"
            /\ accepted' = accepted
            /\ encoded' = encoded]_vars

C22_Witness ==
    /\ spc = "done"
    /\ sret = "encode"
    /\ Len(encoded) = 3
    /\ accepted = <<1, 2>>
    /\ ~speaking[svc]

\* C26: in a SpeakText call that is alone on its handle, a frame is offered
\* and accepted only while the speaking flag of the handle is true, the flag
\* goes from true to false only in the step in which the call returns, and
\* after that step the call hands over no frame.
C26_SpeakingBracketsFrames ==
    [][/\ accepted' # accepted => (speaking[svc] /\ speaking'[svc])
       /\ (spc # "send" /\ spc' = "send") => speaking'[svc]
       /\ \A h \in Handles :
             (speaking[h] /\ ~speaking'[h]) => (h = svc /\ spc' = "done")
       /\ spc = "done" => accepted' = accepted]_vars

C26_Witness ==
    /\ spc = "done"
    /\ sret = "nil"
    /\ Len(accepted) = 2
    /\ opusSend[svc] = <<>>
    /\ ~speaking[svc]

\* C23: while CreateSpeech and the MP3 decoding are under way, and when the
\* call has returned because one of them failed, no frame has been encoded,
\* offered or accepted and the speaking flag has not been set; the samples
\* read before a decoding failure never become the utterance.
C23_EarlyFailureSendsNothing ==
    /\ (spc \in {"synth", "decode"} \/ sret \in {"synthesis", "decode"}) =>
          /\ encoded = <<>>
          /\ accepted = <<>>
          /\ pcm = <<>>
          /\ opusSend[svc] = <<>>
          /\ \A h \in Handles : ~speaking[h]
    /\ dpc = "failed" => (spc \in {"decode", "done"} /\ (spc = "done" => sret = "decode"))
    /\ (dpc = "idle" /\ spc = "done") => sret \in {"synthesis", "decode"}

C23_Witness ==
    /\ spc = "done"
    /\ sret = "decode"
    /\ dpc = "failed"
    /\ Len(dpcm) >= 2

\* the samples of the frames of the log h that decoded, in arrival order
RECURSIVE AudioOf(_)
AudioOf(h) == IF h = <<>> THEN <<>> ELSE Head(h).pcm \o AudioOf(Tail(h))
RECURSIVE SumLen(_)
SumLen(h) == IF h = <<>> THEN 0 ELSE Len(Head(h).pcm) + SumLen(Tail(h))

\* C24: at every point of a ListenToVoice call pcmBuffer is the concatenation,
\* in arrival order, of the samples of the frames that decoded so far, its
\* length is the sum of their sample counts, and every step leaves the old
\* contents as a prefix of the new.
C24_BufferIsConcatenation ==
    /\ [](pcmBuffer = AudioOf(heard) /\ Len(pcmBuffer) = SumLen(heard))
    /\ [][/\ Len(pcmBuffer') >= Len(pcmBuffer)
          /\ SubSeq(pcmBuffer', 1, Len(pcmBuffer)) = pcmBuffer]_vars

\* three frames: a full frame, a frame the decoder rejects, a full frame
C24_Witness ==
    /\ Len(heard) = 3
    /\ heard[1].kind = "audio"
    /\ heard[2].kind = "bad"
    /\ heard[3].kind = "audio"
    /\ Len(heard[1].pcm) = FrameLen
    /\ heard[1].pcm # heard[3].pcm
    /\ Len(pcmBuffer) = 2 * FrameLen

\* C25: ListenToVoice never takes out of vc.OpusSend a frame that SpeakText
\* put there: every frame the call receives is a frame of the inbound path,
\* so that every frame accepted from SpeakText is left for the transport's
\* sender and none of them is decoded into the capture buffer.
C25_ListenTakesNoPlaybackFrame ==
    [][Len(heard') = Len(heard) + 1 =>
         \A i \in 1 .. Len(accepted) : accepted[i] # Head(opusSend[lvc])]_vars

\* C27: once the timer of the capture window has fired, a ListenToVoice call
\* that is in the capture loop leaves it, whatever frames are ready to be
\* received.
C27_ListeningEnds == (lpc = "listen" /\ timerFired) ~> (lpc # "listen")

\* the call has left the loop through the timeout while a frame was ready
C27_Witness ==
    /\ lpc = "transcribe"
    /\ timerFired
    /\ opusSend[lvc] # <<>>
    /\ Len(heard) >= 2

\* C28: a SpeakText call that has entered the frame loop returns, unless from
\* some point on it waits for ever with vc.OpusSend full and its context not
\* cancelled.
C28_StreamingReturns ==
    []<>(~(Blocked /\ ~ctxDone)) => ((spc \in {"loop", "send"}) ~> (spc = "done"))

\* the call has returned through the cancellation with the channel still full
C28_Witness ==
    /\ spc = "done"
    /\ sret = "cancelled"
    /\ Len(opusSend[svc]) = OpusSendCap

\* C29: SpeakText hands a frame to its handle only while the handle is open:
\* after DisconnectVoice or a channel-switching join has closed the handle,
\* no further frame of the running call is accepted by vc.OpusSend.
C29_NoFrameAfterClose ==
    [][accepted' # accepted => hState[svc] = "open"]_vars

\* C30: a step of JoinVoiceChannel or DisconnectVoice called for guild A
\* leaves every other guild B as it was: the entry of B in voiceConns is
\* unchanged, no handle opened for B is closed or otherwise changed, and no
\* handle is opened for B.
C30_OtherGuildsUntouched ==
    [][\A p \in Procs :
          pc'[p] # pc[p] =>
             LET A == IF pc[p] = "idle" THEN argG'[p] ELSE argG[p]
             IN  \A B \in Guilds \ {A} :
                    /\ voiceConns'[B] = voiceConns[B]
                    /\ \A h \in Handles :
                          /\ (hState[h] # "unopened" /\ hGuild[h] = B)
                                => /\ hState'[h] = hState[h]
                                   /\ hReady'[h] = hReady[h]
                                   /\ hChannel'[h] = hChannel[h]
                                   /\ hGuild'[h] = B
                          /\ (hState[h] = "unopened" /\ hState'[h] # "unopened")
                                => hGuild'[h] = A]_vars

\* DisconnectVoice has just closed and removed the entry of one guild while
\* another guild has an open handle stored
C30_Witness ==
    /\ out.op = "disconnect"
    /\ out.closes = 1
    /\ voiceConns[out.g] = NoConn
    /\ \E B \in Guilds \ {out.g} :
          /\ voiceConns[B] # NoConn
          /\ hState[voiceConns[B]] = "open"
          /\ hGuild[voiceConns[B]] = B

====
